---- MODULE Spec2Model ----
(***************************************************************************)
(* The orchestration and dispatch pipeline of WorldWise                    *)
(* (backend/core/orchestrator.py) with the agents it awaits.               *)
(*                                                                         *)
(* One request is one cooperative task running process_input.  A task is   *)
(* suspended only at an await; every action below is the completion of one *)
(* await together with the synchronous code that follows it.  The replies  *)
(* of the reasoning service are inputs: each call either yields a parsed   *)
(* object ("ok"), fails in transport (timeout, non-200: "transport") or    *)
(* yields text with no parseable object ("malformed").                     *)
(*                                                                         *)
(* Python dicts are functions with a string domain, dict.get is Get, lists *)
(* are sequences, None is NoneVal, confidences are tenths (0.3 is 3).      *)
(***************************************************************************)
EXTENDS Integers, Sequences, FiniteSets, TLC

VARIABLES
    conversation_context,   \* AgentOrchestrator.conversation_context
    user_profiles,          \* PersonalizationAgent.user_profiles
    req,                    \* the locals of each process_input task
    clock,                  \* datetime.now(), as a logical time
    nreq,                   \* requests started so far
    appended                \* every history entry appended for a user, in
                            \* order (bookkeeping of the model)

vars == <<conversation_context, user_profiles, req, clock, nreq, appended>>

----------------------------------------------------------------------------
(* Bounds of the model *)

\* requests started in a behaviour of Spec
MaxRequests == 2
\* requests started in a behaviour of SpecStore (more than the history keeps)
MaxStoreRequests == 11
\* longest agents_to_activate list the reasoning service returns
MaxPlanAgents == 2
\* longest reply text of the reasoning service, in symbols
MaxReplyLen == 4
\* requests started in a behaviour of SpecTurns (more than the window shows)
MaxTurns == 5

(* Program constants *)

\* conversation_history keeps the last 10 entries
HistoryCap == 10
\* the classifier is given the last 3 history entries
ContextWindow == 3
\* confidence of every fallback reply (0.3), in tenths
FallbackConfidence == 3
\* confidence used when a parsed reply names none (0.8), in tenths
DefaultConfidence == 8
\* a confidence that is not a number (JSON null or a string)
BadConfidence == 99

----------------------------------------------------------------------------
(* Python values *)

NoneVal == "<None>"
\* a key that a dict does not have (used only to build dicts)
Absent == "<absent>"

Get(d, k, default) == IF k \in DOMAIN d THEN d[k] ELSE default

Put(d, k, v) == [x \in DOMAIN d \cup {k} |-> IF x = k THEN v ELSE d[x]]

\* d with key k set to v, or without the key when v is Absent
Opt(d, k, v) == IF v = Absent THEN d ELSE Put(d, k, v)

EmptyDict == [x \in {} |-> NoneVal]

InList(x, s) == \E i \in 1..Len(s) : s[i] = x

\* s[-n:]
LastN(s, n) == IF Len(s) <= n THEN s ELSE SubSeq(s, Len(s) - n + 1, Len(s))

\* bool(x) of a string or None
Truthy(x) == x \notin {NoneVal, ""}

----------------------------------------------------------------------------
(* The agent catalog and the inputs *)

Users == {"u1", "u2"}

\* the tasks that may run process_input: one at a time, or two at once
SeqProcs == {1}
AllProcs == {1, 2}

\* the outcomes of one call of the reasoning service
CallKinds == {"ok", "transport", "malformed"}

\* mutant: data retrieval is reached before language correction
AgentOrder_swapped ==
    <<"data_retrieval", "language_correction", "translation",
      "conversation", "evaluation", "personalization">>

\* the order in which process_input reaches the agents
AgentOrder ==
    <<"language_correction", "data_retrieval", "translation",
      "conversation", "evaluation", "personalization">>

\* the stage of process_input that follows a stage ("done" after the last)
StageAfter(stage) ==
    LET i == CHOOSE k \in 1..Len(AgentOrder) : AgentOrder[k] = stage
    IN  IF i = Len(AgentOrder) THEN "done" ELSE AgentOrder[i + 1]

\* the agent names a plan may list
PlanAgentNames ==
    {"language_correction", "data_retrieval", "translation", "conversation"}

\* AgentResponse(agent_name, status, data, confidence)
AgentResponse(name, status, data, confidence) ==
    [agent_name |-> name, status |-> status, data |-> data,
     confidence |-> confidence]

NoRepeat(l) == \A i, j \in 1..Len(l) : i # j => l[i] # l[j]

\* the lists without repetition over S of length at most n
RECURSIVE ListsOver(_, _)
ListsOver(S, n) ==
    IF n = 0 THEN {<<>>}
    ELSE LET shorter == ListsOver(S, n - 1)
             longer == {Append(l, x) : l \in shorter, x \in S}
         IN  shorter \cup {l \in longer : NoRepeat(l)}

\* a plan as the reasoning service writes it; Absent leaves the country out,
\* and extra holds the clarification keys it wrote
Plan(country, sources, agents, extra) ==
    Opt([intent |-> "cultural_info",
         data_sources |-> sources,
         agents_to_activate |-> agents,
         confidence |-> 9],
        "target_country", country) @@ extra

\* plans that differ in the agents they list, in any order
RoutingPlans ==
    {Plan(c, ds, ag, EmptyDict) :
        c \in {"Japan", "unknown"}, ds \in {<<>>, <<"news">>},
        ag \in ListsOver(PlanAgentNames, MaxPlanAgents)}

\* plans that differ in the subject they name
SubjectPlans ==
    {Plan(c, ds, ag, [needs_clarification |-> FALSE]) :
        c \in {Absent, NoneVal, "", "unknown", "none", "France"},
        ds \in {<<>>, <<"news">>},
        ag \in {<<"conversation">>, <<"data_retrieval", "conversation">>}}

\* plans that ask the user to clarify
ClarifyingPlans ==
    {Plan(c, <<>>, ag, q) :
        c \in {"Japan"},
        q \in {[needs_clarification |-> TRUE],
               [needs_clarification |-> TRUE,
                clarifying_question |-> "Which aspect of Japan?"]},
        ag \in {<<"conversation">>, <<"data_retrieval", "conversation">>}}

ParsedPlans == RoutingPlans \cup ClarifyingPlans

\* plans for every way through the pipeline
LivePlans ==
    ClarifyingPlans
        \cup {Plan("Japan", <<"news">>, ag, EmptyDict) :
                 ag \in {<<"conversation">>,
                         <<"language_correction", "data_retrieval",
                           "conversation">>,
                         <<"translation", "conversation">>}}

\* the plans of the turns of one conversation
TurnPlans ==
    {Plan("France", <<>>, <<"conversation">>, EmptyDict),
     Plan("Japan", <<>>, <<"conversation">>, EmptyDict),
     Plan("unknown", <<>>, <<"conversation">>, EmptyDict),
     Plan("Japan", <<>>, <<"conversation">>,
          [needs_clarification |-> TRUE,
           clarifying_question |-> "Which aspect of Japan?"])}

\* the plans of two requests that run at once
ConcurrentPlans ==
    {Plan("France", <<>>, <<"conversation">>, EmptyDict),
     Plan("Japan", <<>>, <<"conversation">>, EmptyDict)}

\* the plans of the long runs that fill the history
StorePlans ==
    {Plan("Japan", <<>>, <<"conversation">>, EmptyDict),
     Plan("Japan", <<>>, <<"conversation">>,
          [needs_clarification |-> TRUE,
           clarifying_question |-> "Which aspect of Japan?"])}

----------------------------------------------------------------------------
(* What awaiting agent.process(...) gives: a response, or an exception *)

Returned(response) == [raised |-> FALSE, value |-> response]

Raised(error) == [raised |-> TRUE, error |-> error]

----------------------------------------------------------------------------
(* Intent classifier: agents/orchestrator.py *)

FallbackPlan ==
    [intent |-> "cultural_info",
     target_country |-> "unknown",
     data_sources |-> <<"government", "music", "food">>,
     agents_to_activate |-> <<"cultural_context", "conversation">>,
     requires_voice |-> FALSE,
     confidence |-> FallbackConfidence,
     reasoning |-> "Fallback plan due to error"]

\* The reply of the reasoning service to the classifier: no status at all
\* when the request raises (timeout, connection error), a status other than
\* 200, or 200 with a body that may hold a text.  A text is a sequence of
\* symbols: the two braces, "m" for the members of a flat object and "x" for
\* any other characters.
TimedOut == [status |-> 0]

ReplySymbols == {"{", "}", "m", "x"}

RECURSIVE TextsUpTo(_)
TextsUpTo(n) ==
    IF n = 0 THEN {<<>>}
    ELSE LET shorter == TextsUpTo(n - 1)
         IN  shorter \cup {Append(t, c) : t \in shorter, c \in ReplySymbols}

AllReplies ==
    {TimedOut, [status |-> 500], [status |-> 200]}
        \cup {[status |-> 200, text |-> t] : t \in TextsUpTo(MaxReplyLen)}

\* the reply that stands for a call outcome
ReplyOf(kind) ==
    CASE kind = "ok" -> [status |-> 200, text |-> <<"x", "{", "m", "}">>]
      [] kind = "transport" -> TimedOut
      [] kind = "malformed" -> [status |-> 200, text |-> <<"x">>]

\* str.find and str.rfind: an index from 0, or -1
find(text, c) ==
    IF \E i \in 1..Len(text) : text[i] = c
    THEN (CHOOSE i \in 1..Len(text) :
              text[i] = c /\ \A j \in 1..(i - 1) : text[j] # c) - 1
    ELSE -1

rfind(text, c) ==
    IF \E i \in 1..Len(text) : text[i] = c
    THEN (CHOOSE i \in 1..Len(text) :
              text[i] = c /\ \A j \in (i + 1)..Len(text) : text[j] # c) - 1
    ELSE -1

\* json.loads of a slice: the object it denotes, or JSONDecodeError
json_loads(slice, parsed) ==
    IF slice = <<"{", "m", "}">> THEN Returned(parsed)
    ELSE IF slice = <<"{", "}">> THEN Returned(EmptyDict)
         ELSE Raised("JSONDecodeError")

\* the try block ended without a return
FellThrough == [raised |-> FALSE]

\* lines 151-170, the body of the try: a plan, an exception, or neither
\* when the text has no '{' with a '}' after it
request_plan(reply, parsed) ==
    IF reply.status # 200 THEN Raised("Anthropic API error")
    ELSE IF "text" \notin DOMAIN reply THEN Raised("'content'")
    ELSE LET plan_text == reply.text
             start_idx == find(plan_text, "{")
             end_idx == rfind(plan_text, "}") + 1
         IN  IF start_idx # -1 /\ end_idx > start_idx
             THEN json_loads(SubSeq(plan_text, start_idx + 1, end_idx), parsed)
             ELSE FellThrough

\* mutant: whatever follows a '{' is taken for a plan
analyze_intent_trusting(reply, parsed) ==
    IF reply.status = 200 /\ "text" \in DOMAIN reply
       /\ find(reply.text, "{") # -1
    THEN parsed ELSE FallbackPlan

\* _analyze_intent: the parsed plan, or the fallback plan on any failure
analyze_intent(reply, parsed) ==
    LET out == request_plan(reply, parsed)
    IN  IF out.raised THEN FallbackPlan
        ELSE IF out = FellThrough THEN FallbackPlan ELSE out.value

\* OrchestratorAgent.process
OrchestratorAgent_process(reply, parsed) ==
    LET plan == analyze_intent(reply, parsed)
    IN  Returned(AgentResponse("Orchestrator", "success", plan,
                               Get(plan, "confidence", DefaultConfidence)))

----------------------------------------------------------------------------
(* Context store: AgentOrchestrator._get_user_context, _update_user_context *)

EmptyContext ==
    [last_country |-> NoneVal, conversation_history |-> <<>>,
     user_interests |-> <<>>]

\* mutant: the context of whichever user the store holds first
get_user_context_any(store, user_id) ==
    IF DOMAIN store = {} THEN EmptyContext
    ELSE store[CHOOSE u \in DOMAIN store : TRUE]

get_user_context(store, user_id) == Get(store, user_id, EmptyContext)

history_entry(execution_plan, now) ==
    [query |-> Get(execution_plan, "intent", "unknown"),
     country |-> Get(execution_plan, "target_country", NoneVal),
     timestamp |-> now]

\* mutant: the history is never cut
trim_history_never(h) == h

\* mutant: the newest entries are the ones dropped
trim_history_oldest(h) ==
    IF Len(h) > HistoryCap THEN SubSeq(h, 1, HistoryCap) ELSE h

\* lines 76-78: keep only the last 10 conversations
trim_history(h) == IF Len(h) > HistoryCap THEN LastN(h, HistoryCap) ELSE h

\* mutant: the sentinels "unknown" and "none" overwrite as well
next_last_country_any(old, target_country) ==
    IF Truthy(target_country) THEN target_country ELSE old

\* lines 65-67: the last country is overwritten by a specific country only
next_last_country(old, target_country) ==
    IF Truthy(target_country)
       /\ target_country \notin {"unknown", "none", NoneVal}
    THEN target_country ELSE old

\* mutant: the update is written to the context of every user
update_user_context_shared(store, user_id, execution_plan, now) ==
    [u \in Users |->
        [Get(store, u, EmptyContext) EXCEPT
           !.conversation_history =
               Append(@, history_entry(execution_plan, now))]]

\* mutant: the update starts from an empty context, not from the stored one
update_user_context_overwriting(store, user_id, execution_plan, now) ==
    LET target_country == Get(execution_plan, "target_country", NoneVal)
    IN  Put(store, user_id,
            [EmptyContext EXCEPT
               !.last_country = next_last_country(@, target_country),
               !.conversation_history =
                   <<history_entry(execution_plan, now)>>])

update_user_context(store, user_id, execution_plan, now) ==
    LET ctx == get_user_context(store, user_id)
        target_country == Get(execution_plan, "target_country", NoneVal)
    IN  Put(store, user_id,
            [ctx EXCEPT
               !.last_country = next_last_country(@, target_country),
               !.conversation_history =
                   trim_history(Append(@, history_entry(execution_plan, now)))])

----------------------------------------------------------------------------
(* The base classes of the agents *)

\* the AgentResponse an agent's own except clause builds
ErrorResponse(name, error) ==
    AgentResponse(name, "error", [error |-> error], 0)

\* core/base.py BaseAgent.process: _process_impl, then the logging of the
\* result, which formats result.confidence as a number; whatever is raised
\* there is logged and raised again
BaseAgent_process(result) ==
    IF result.confidence = BadConfidence
    THEN Raised("Unknown format code 'f'")
    ELSE Returned(result)

\* agents/base.py BaseAgent.process, which subclasses must override
AgentsBase_process == Raised("Agents must implement process method")

----------------------------------------------------------------------------
(* agents/language_correction.py *)

LanguageCorrectionReplies == {[has_errors |-> TRUE, confidence |-> 9]}

LanguageCorrectionFallback ==
    [has_errors |-> FALSE, overall_quality |-> "unknown",
     confidence |-> FallbackConfidence, explanation |-> "Unable to analyze"]

analyze_language(kind, parsed) ==
    IF kind = "ok" THEN parsed ELSE LanguageCorrectionFallback

LanguageCorrectionAgent_process(kind, parsed) ==
    LET corrections == analyze_language(kind, parsed)
    IN  Returned(AgentResponse("LanguageCorrection", "success", corrections,
                   Get(corrections, "confidence", DefaultConfidence)))

----------------------------------------------------------------------------
(* agents/translation.py: TranslationAgent defines _process_impl only, and *)
(* its base class is the one of agents/base.py                             *)

TranslationAgent_process == AgentsBase_process

----------------------------------------------------------------------------
(* agents/conversation.py *)

ConversationReplies ==
    {[response |-> "Tokyo has great ramen.", confidence |-> 9],
     [follow_up_questions |-> <<>>]}

ConversationFallback ==
    [response |-> "I'd be happy to help you learn more about different cultures!",
     tone |-> "friendly", confidence |-> FallbackConfidence,
     reasoning |-> "Fallback response due to API error"]

\* mutant: the fallback reply names no confidence
generate_response_unrated(kind, parsed) ==
    IF kind = "ok" THEN parsed
    ELSE [response |-> "I'd be happy to help you learn more about different cultures!"]

generate_response(kind, parsed) ==
    IF kind = "ok" THEN parsed ELSE ConversationFallback

\* process: what _generate_response gives is wrapped as a success; an
\* exception raised in process itself, outside the helper's own try (kind
\* "internal"), is answered by the except clause of lines 55-62
ConversationAgent_process(kind, parsed) ==
    IF kind = "internal"
    THEN Returned(ErrorResponse("Conversation", "internal error"))
    ELSE LET response == generate_response(kind, parsed)
         IN  Returned(AgentResponse("Conversation", "success", response,
                        Get(response, "confidence", DefaultConfidence)))

----------------------------------------------------------------------------
(* agents/evaluation.py *)

\* integrations.arize is part of the repository, so its import succeeds
ARIZE_AVAILABLE == TRUE

\* learning_progress is an object in a well-formed reply; the service may
\* also write it as a string
EvaluationReplies ==
    {[learning_progress |-> "object", confidence |-> 9],
     [learning_progress |-> "string", confidence |-> 9]}

EvaluationFallback ==
    [learning_progress |-> "object", confidence |-> FallbackConfidence,
     reasoning |-> "Unable to evaluate"]

evaluate_interaction(kind, parsed) ==
    IF kind = "ok" THEN parsed ELSE EvaluationFallback

\* lines 61-92 call learning_progress.get(...), inside the try of process
EvaluationAgent_process(kind, parsed) ==
    LET evaluation == evaluate_interaction(kind, parsed)
    IN  IF ARIZE_AVAILABLE
           /\ Get(evaluation, "learning_progress", "object") # "object"
        THEN Returned(ErrorResponse("Evaluation",
                         "'str' object has no attribute 'get'"))
        ELSE Returned(AgentResponse("Evaluation", "success", evaluation,
                         Get(evaluation, "confidence", DefaultConfidence)))

----------------------------------------------------------------------------
(* agents/personalization.py *)

EmptyProfile == [interaction_count |-> 0, cultural_focus |-> <<>>]

get_profile(profiles, user_id) == Get(profiles, user_id, EmptyDict)

\* _update_profile: the profile of user_id after one more interaction
update_profile(profiles, user_id, interaction) ==
    LET profile == Get(profiles, user_id, EmptyProfile)
        country == interaction.country
    IN  [profile EXCEPT
           !.interaction_count = @ + 1,
           !.cultural_focus =
               IF InList(country, @) THEN @ ELSE Append(@, country)]

PersonalizationAgent_process_impl(profiles, user_id, interaction) ==
    AgentResponse("Personalization", "success",
                  update_profile(profiles, user_id, interaction), 9)

PersonalizationAgent_process(profiles, user_id, interaction) ==
    BaseAgent_process(
        PersonalizationAgent_process_impl(profiles, user_id, interaction))

----------------------------------------------------------------------------
(* agents/data_retrieval.py: the Data Retrieval Selector *)

\* the keys of available_apis that call a content provider
ProviderSources ==
    {"news", "music", "landmarks", "restaurants", "destinations"}

\* the keys of available_apis that return a fixed placeholder
PlaceholderSources == {"food", "movies", "government", "festivals"}

available_apis == ProviderSources \cup PlaceholderSources

\* What the content providers do in one request.  A provider that is not
\* configured, or that fails (the integrations return None on any failure),
\* gives nothing: "empty".  The music provider, when configured, raises:
\* _get_music_data calls search_playlists, which the SpotifyIntegration of
\* the integrations package does not have.
ProviderStates ==
    {[s \in ProviderSources |-> IF s = "music" THEN "raises" ELSE "live"],
     [s \in ProviderSources |-> "empty"],
     [s \in ProviderSources |-> IF s = "music" THEN "raises" ELSE "empty"]}

\* _get_news_data and the like: provider records, the fallback records when
\* the provider has nothing, and {"error": ...} when the call raises
get_source_data(source, country, providers) ==
    IF source \in PlaceholderSources
    THEN [country |-> country, message |-> "API not yet implemented"]
    ELSE IF providers[source] = "live"
         THEN [country |-> country, source |-> "api"]
         ELSE IF providers[source] = "empty"
              THEN [country |-> country, source |-> "api_fallback"]
              ELSE [error |-> "provider"]

\* the replies of the reasoning service that parse
DataAnalyses ==
    {[data_sources_needed |-> <<"news">>, needs_clarification |-> FALSE,
      confidence |-> 9],
     [data_sources_needed |-> <<"music", "restaurants", "podcasts">>],
     [data_sources_needed |-> <<"news">>, confidence |-> BadConfidence],
     [data_sources_needed |-> <<>>, needs_clarification |-> TRUE,
      clarification_question |-> "Food or news?",
      suggested_options |-> <<"Food", "News">>, confidence |-> 9],
     [data_sources_needed |-> <<>>, needs_clarification |-> TRUE]}

\* lines 198-207; the question names the country in the code
FallbackAnalysis ==
    [data_sources_needed |-> <<"news">>,
     specific_request |-> "General information request",
     needs_clarification |-> TRUE,
     clarification_question |-> "What specific aspect are you most interested in?",
     suggested_options |-> <<"Current news", "Food recommendations",
                             "Cultural events", "General overview">>,
     confidence |-> FallbackConfidence,
     reasoning |-> "Fallback analysis due to error"]

analyze_data_needs(kind, parsed) ==
    IF kind = "ok" THEN parsed ELSE FallbackAnalysis

\* _retrieve_data: one entry per known source, unknown sources are skipped
retrieve_data(analysis, country, providers) ==
    LET data_sources == Get(analysis, "data_sources_needed", <<>>)
        known == {data_sources[i] : i \in 1..Len(data_sources)}
                     \cap available_apis
    IN  [source \in known |-> get_source_data(source, country, providers)]

DataRetrievalAgent_process_impl(kind, parsed, country, providers) ==
    LET data_analysis == analyze_data_needs(kind, parsed)
    IN  IF Get(data_analysis, "needs_clarification", FALSE)
        THEN IF "clarification_question" \in DOMAIN data_analysis
             THEN AgentResponse("DataRetrieval", "clarification_needed",
                    [clarification_question |->
                         data_analysis["clarification_question"],
                     suggested_options |->
                         Get(data_analysis, "suggested_options", <<>>)],
                    9)
             ELSE ErrorResponse("DataRetrieval", "'clarification_question'")
        ELSE AgentResponse("DataRetrieval", "success",
               retrieve_data(data_analysis, country, providers),
               Get(data_analysis, "confidence", DefaultConfidence))

DataRetrievalAgent_process(kind, parsed, country, providers) ==
    BaseAgent_process(
        DataRetrievalAgent_process_impl(kind, parsed, country, providers))

----------------------------------------------------------------------------
(* core/orchestrator.py: AgentOrchestrator.process_input *)

NoResult == [status |-> "none"]

\* the locals of a task that is not handling a request
IdleReq ==
    [pc |-> "idle", user_id |-> NoneVal, has_text |-> FALSE,
     query |-> NoneVal,
     context |-> EmptyContext, execution_plan |-> EmptyDict,
     agent_responses |-> EmptyDict, agents_activated |-> <<>>,
     plan_reply |-> [status |-> -1], orchestrator_response |-> NoResult,
     data_response |-> NoResult, asked |-> <<>>, data_input |-> EmptyDict,
     user_profile |-> EmptyDict,
     invoked |-> <<>>, transport |-> {}, malformed |-> {}, raised |-> {},
     result |-> NoResult]

\* mutant: the last country is not handed on
enhanced_context_forgetful(user_context) ==
    [last_country |-> NoneVal,
     conversation_history |->
         LastN(user_context.conversation_history, ContextWindow),
     user_interests |-> user_context.user_interests]

\* lines 93-97: the context handed to the classifier
enhanced_context(user_context) ==
    [last_country |-> user_context.last_country,
     conversation_history |->
         LastN(user_context.conversation_history, ContextWindow),
     user_interests |-> user_context.user_interests]

\* mutant: the plan's own question is not used
plan_clarification_result_generic(execution_plan, now) ==
    [status |-> "clarification_needed",
     response |-> "Could you clarify what you're looking for?",
     metadata |-> [agents_activated |-> <<"orchestrator">>,
                   execution_plan |-> execution_plan,
                   timestamp |-> now]]

\* lines 105-113
plan_clarification_result(execution_plan, now) ==
    [status |-> "clarification_needed",
     response |-> Get(execution_plan, "clarifying_question",
                      "Could you clarify what you're looking for?"),
     metadata |-> [agents_activated |-> <<"orchestrator">>,
                   execution_plan |-> execution_plan,
                   timestamp |-> now]]

\* mutant: the options of the data-retrieval outcome are dropped
data_clarification_result_bare(data_response, execution_plan) ==
    [status |-> "clarification_needed",
     response |-> Get(data_response.data, "clarification_question",
                      "Could you clarify what you're looking for?"),
     metadata |-> [suggested_options |-> <<>>,
                   agents_activated |-> <<"orchestrator", "data_retrieval">>,
                   execution_plan |-> execution_plan]]

\* mutant: the clarification of data retrieval is returned as a success
data_clarification_result_success(data_response, execution_plan) ==
    [status |-> "success",
     response |-> Get(data_response.data, "clarification_question",
                      "Could you clarify what you're looking for?"),
     metadata |-> [suggested_options |->
                       Get(data_response.data, "suggested_options", <<>>),
                   agents_activated |-> <<"orchestrator", "data_retrieval">>,
                   execution_plan |-> execution_plan]]

\* lines 149-157
data_clarification_result(data_response, execution_plan) ==
    [status |-> "clarification_needed",
     response |-> Get(data_response.data, "clarification_question",
                      "Could you clarify what you're looking for?"),
     metadata |-> [suggested_options |->
                       Get(data_response.data, "suggested_options", <<>>),
                   agents_activated |-> <<"orchestrator", "data_retrieval">>,
                   execution_plan |-> execution_plan]]

\* mutant: a failed evaluation fails the request
final_response_graded(execution_plan, agent_responses, agents_activated) ==
    LET conversation_response == agent_responses["conversation"]
    IN  [status |-> IF agent_responses["evaluation"].status = "error"
                    THEN "error" ELSE "success",
         response |-> Get(conversation_response.data, "response",
                          "I'm here to help!"),
         metadata |-> [agents_activated |-> agents_activated,
                       execution_plan |-> execution_plan,
                       agent_responses |-> agent_responses,
                       confidence |-> conversation_response.confidence]]

\* mutant: a failed conversation fails the request
final_response_strict(execution_plan, agent_responses, agents_activated) ==
    LET conversation_response == agent_responses["conversation"]
    IN  [status |-> IF conversation_response.status = "error"
                    THEN "error" ELSE "success",
         response |-> Get(conversation_response.data, "response",
                          "I'm here to help!"),
         metadata |-> [agents_activated |-> agents_activated,
                       execution_plan |-> execution_plan,
                       agent_responses |-> agent_responses,
                       confidence |-> conversation_response.confidence]]

\* lines 212-227
final_response(execution_plan, agent_responses, agents_activated) ==
    LET conversation_response == agent_responses["conversation"]
    IN  [status |-> "success",
         response |-> Get(conversation_response.data, "response",
                          "I'm here to help!"),
         metadata |-> [agents_activated |-> agents_activated,
                       execution_plan |-> execution_plan,
                       agent_responses |-> agent_responses,
                       confidence |-> conversation_response.confidence]]

\* mutant: the caller is given the text of the exception
error_result_raw(error) ==
    [status |-> "error",
     response |-> error,
     metadata |-> [error |-> error, agents_activated |-> <<>>]]

\* lines 235-244: the process-level catch
error_result(error) ==
    [status |-> "error",
     response |-> "I apologize, but I encountered an error. Please try again.",
     metadata |-> [error |-> error, agents_activated |-> <<>>]]

\* mutant: every optional agent is activated
to_activate_always(execution_plan, agent) == TRUE

\* "x" in execution_plan.get("agents_to_activate", [])
to_activate(execution_plan, agent) ==
    InList(agent, Get(execution_plan, "agents_to_activate", <<>>))

\* lines 134-139: whether data retrieval is called for this plan
wants_data_retrieval(execution_plan) ==
    LET target_country == Get(execution_plan, "target_country", "unknown")
        data_sources == Get(execution_plan, "data_sources", <<>>)
        is_global_query ==
            \/ ~Truthy(target_country)
            \/ /\ target_country \in {"none", "unknown", NoneVal}
               /\ InList("news", data_sources)
    IN  \/ /\ Truthy(target_country)
           /\ target_country \notin {"none", "unknown", NoneVal}
        \/ is_global_query

\* line 141: target_country or "global"
data_country(execution_plan) ==
    LET target_country == Get(execution_plan, "target_country", "unknown")
    IN  IF Truthy(target_country) THEN target_country ELSE "global"

\* bookkeeping of the model: the sources data retrieval was asked to fetch
Asked(r, kind, parsed) ==
    [r EXCEPT !.asked = Get(analyze_data_needs(kind, parsed),
                            "data_sources_needed", <<>>)]

\* lines 140-144: the input data retrieval is called with
Sent(r, country) == [r EXCEPT !.data_input = [country |-> country]]

\* bookkeeping of the model: the agent was awaited, with this call outcome
Awaited(r, agent, kind) ==
    [r EXCEPT !.invoked = Append(@, agent),
              !.transport = IF kind = "transport" THEN @ \cup {agent} ELSE @,
              !.malformed = IF kind = "malformed" THEN @ \cup {agent} ELSE @]

\* the exception of an awaited agent reaches the handler of lines 235-244
Abort(r, agent, out) ==
    [r EXCEPT !.pc = "done", !.raised = @ \cup {agent},
              !.result = error_result(out.error)]

\* agent_responses[agent] = response; agents_activated.append(agent)
Recorded(r, agent, response, next) ==
    [r EXCEPT !.agent_responses = Put(@, agent, response),
              !.agents_activated = Append(@, agent),
              !.pc = next]

----------------------------------------------------------------------------
(* The steps of one request *)

\* lines 85-97, up to the await of the classifier
Begin(p, user_id, has_text, query, max) ==
    /\ req[p].pc = "idle"
    /\ nreq < max
    /\ req' = [req EXCEPT ![p] =
                  [IdleReq EXCEPT
                     !.pc = "orchestrator",
                     !.user_id = user_id,
                     !.has_text = has_text,
                     !.query = query,
                     !.context = enhanced_context(
                         get_user_context(conversation_context, user_id))]]
    /\ nreq' = nreq + 1
    /\ UNCHANGED <<conversation_context, user_profiles, clock, appended>>

\* lines 99-113: the plan, and the clarification it may ask for
OrchestratorStep(p, reply, parsed) ==
    /\ req[p].pc = "orchestrator"
    /\ LET out == OrchestratorAgent_process(reply, parsed)
           r0 == [req[p] EXCEPT
                    !.plan_reply = reply,
                    !.transport = IF reply.status # 200
                                  THEN @ \cup {"orchestrator"} ELSE @,
                    !.malformed =
                        IF reply.status = 200
                           /\ request_plan(reply, parsed)
                                  \notin {Returned(parsed), Returned(EmptyDict)}
                        THEN @ \cup {"orchestrator"} ELSE @]
           execution_plan == out.value.data
           r == [r0 EXCEPT !.orchestrator_response = out.value,
                           !.execution_plan = execution_plan]
       IN  req' = [req EXCEPT ![p] =
                IF out.raised
                THEN Abort(r0, "orchestrator", out)
                ELSE IF Get(execution_plan, "needs_clarification", FALSE)
                     THEN [r EXCEPT !.pc = "done",
                                    !.result = plan_clarification_result(
                                                   execution_plan, clock)]
                     ELSE [r EXCEPT !.pc = AgentOrder[1]]]
    /\ UNCHANGED <<conversation_context, user_profiles, clock, nreq, appended>>

\* lines 119-130
LanguageCorrectionStep(p, kind, parsed) ==
    /\ req[p].pc = "language_correction"
    /\ req' = [req EXCEPT ![p] =
          IF to_activate(@.execution_plan, "language_correction")
             /\ @.has_text
          THEN LET out == LanguageCorrectionAgent_process(kind, parsed)
                   r == Awaited(@, "language_correction", kind)
               IN  IF out.raised
                   THEN Abort(r, "language_correction", out)
                   ELSE Recorded(r, "language_correction", out.value,
                                 StageAfter("language_correction"))
          ELSE [@ EXCEPT !.pc = StageAfter("language_correction")]]
    /\ UNCHANGED <<conversation_context, user_profiles, clock, nreq, appended>>

\* lines 132-160
DataRetrievalStep(p, kind, parsed, providers) ==
    /\ req[p].pc = "data_retrieval"
    /\ req' = [req EXCEPT ![p] =
          IF to_activate(@.execution_plan, "data_retrieval")
             /\ wants_data_retrieval(@.execution_plan)
          THEN LET out == DataRetrievalAgent_process(kind, parsed,
                              data_country(@.execution_plan), providers)
                   r == Sent(Asked(Awaited(@, "data_retrieval", kind),
                                   kind, parsed),
                             data_country(@.execution_plan))
               IN  IF out.raised
                   THEN Abort(r, "data_retrieval", out)
                   ELSE IF out.value.status = "clarification_needed"
                        THEN [r EXCEPT
                                !.pc = "done",
                                !.data_response = out.value,
                                !.result = data_clarification_result(
                                               out.value, r.execution_plan)]
                        ELSE [Recorded(r, "data_retrieval", out.value,
                                       StageAfter("data_retrieval"))
                                EXCEPT !.data_response = out.value]
          ELSE [@ EXCEPT !.pc = StageAfter("data_retrieval")]]
    /\ UNCHANGED <<conversation_context, user_profiles, clock, nreq, appended>>

\* lines 162-172
TranslationStep(p) ==
    /\ req[p].pc = "translation"
    /\ req' = [req EXCEPT ![p] =
          IF to_activate(@.execution_plan, "translation")
          THEN LET out == TranslationAgent_process
                   r == Awaited(@, "translation", "ok")
               IN  IF out.raised
                   THEN Abort(r, "translation", out)
                   ELSE Recorded(r, "translation", out.value,
                                 StageAfter("translation"))
          ELSE [@ EXCEPT !.pc = StageAfter("translation")]]
    /\ UNCHANGED <<conversation_context, user_profiles, clock, nreq, appended>>

\* lines 174-184: always
ConversationStep(p, kind, parsed) ==
    /\ req[p].pc = "conversation"
    /\ req' = [req EXCEPT ![p] =
          LET out == ConversationAgent_process(kind, parsed)
              r == Awaited(@, "conversation", kind)
          IN  IF out.raised
              THEN Abort(r, "conversation", out)
              ELSE Recorded(r, "conversation", out.value,
                            StageAfter("conversation"))]
    /\ UNCHANGED <<conversation_context, user_profiles, clock, nreq, appended>>

\* lines 186-199: always
EvaluationStep(p, kind, parsed) ==
    /\ req[p].pc = "evaluation"
    /\ req' = [req EXCEPT ![p] =
          LET out == EvaluationAgent_process(kind, parsed)
              r == [Awaited(@, "evaluation", kind) EXCEPT
                      !.user_profile = get_profile(user_profiles,
                                                  req[p].user_id)]
          IN  IF out.raised
              THEN Abort(r, "evaluation", out)
              ELSE Recorded(r, "evaluation", out.value,
                            StageAfter("evaluation"))]
    /\ UNCHANGED <<conversation_context, user_profiles, clock, nreq, appended>>

\* lines 201-233: personalization awaits nothing, so its call, the final
\* response and the update of the context are one step
PersonalizationStep(p) ==
    /\ req[p].pc = "personalization"
    /\ LET r0 == req[p]
           interaction ==
               [country |-> Get(r0.execution_plan, "target_country", "unknown"),
                language |-> "en", timestamp |-> "now"]
           out == PersonalizationAgent_process(user_profiles, r0.user_id,
                                               interaction)
           r == Awaited(r0, "personalization", "ok")
           r1 == Recorded(r, "personalization", out.value, "done")
       IN  /\ user_profiles' =
                 Put(user_profiles, r0.user_id,
                     update_profile(user_profiles, r0.user_id, interaction))
           /\ IF out.raised
              THEN /\ req' = [req EXCEPT ![p] =
                                 Abort(r, "personalization", out)]
                   /\ UNCHANGED <<conversation_context, clock, appended>>
              ELSE /\ req' = [req EXCEPT ![p] =
                        [r1 EXCEPT !.result =
                            final_response(r1.execution_plan,
                                           r1.agent_responses,
                                           r1.agents_activated)]]
                   /\ conversation_context' =
                          update_user_context(conversation_context,
                              r0.user_id, r0.execution_plan, clock)
                   /\ clock' = clock + 1
                   /\ appended' =
                          [appended EXCEPT ![r0.user_id] =
                              Append(@, history_entry(r0.execution_plan,
                                                      clock))]
    /\ UNCHANGED nreq

\* the caller takes the result; the task may handle the next request
Return(p) ==
    /\ req[p].pc = "done"
    /\ req' = [req EXCEPT ![p] = IdleReq]
    /\ UNCHANGED <<conversation_context, user_profiles, clock, nreq, appended>>

----------------------------------------------------------------------------
(* Specifications *)

Init ==
    /\ conversation_context = EmptyDict
    /\ user_profiles = EmptyDict
    /\ req = [p \in AllProcs |-> IdleReq]
    /\ clock = 0
    /\ nreq = 0
    /\ appended = [u \in Users |-> <<>>]

\* the completion of the await a request of task p is suspended at, with
\* the inputs drawn from the sets of in
PipelineStep(p, in) ==
    \/ \E r \in in.plan_replies, pl \in in.plans :
           OrchestratorStep(p, r, pl)
    \/ \E k \in in.kinds, c \in LanguageCorrectionReplies :
           LanguageCorrectionStep(p, k, c)
    \/ \E k \in in.kinds, a \in DataAnalyses, pr \in ProviderStates :
           DataRetrievalStep(p, k, a, pr)
    \/ TranslationStep(p)
    \/ \E k \in in.conversation_kinds, c \in in.replies :
           ConversationStep(p, k, c)
    \/ \E k \in in.kinds, e \in in.evaluations : EvaluationStep(p, k, e)
    \/ PersonalizationStep(p)

\* the steps of the tasks in procs, with the inputs drawn from the sets of in
NextOver(in) ==
    \E p \in in.procs :
        \/ \E u \in in.users, t \in in.texts, q \in in.queries :
              Begin(p, u, t, q, in.max)
        \/ PipelineStep(p, in)
        \/ Return(p)

\* one request at a time, every plan and every failure
AllInputs ==
    [procs |-> SeqProcs, users |-> {"u1"}, texts |-> BOOLEAN,
     queries |-> {"news about Japan"},
     kinds |-> CallKinds,
     conversation_kinds |-> CallKinds,
     plan_replies |-> {ReplyOf(k) : k \in CallKinds},
     plans |-> ParsedPlans,
     replies |-> ConversationReplies,
     evaluations |-> EvaluationReplies, max |-> MaxRequests]

Next == NextOver(AllInputs)

Spec == Init /\ [][Next]_vars

\* one request at a time, every failure, a plan for every way through
LiveInputs == [AllInputs EXCEPT !.plans = LivePlans]

NextLive == NextOver(LiveInputs)

\* every external call returns or fails in the end: an await that can
\* complete does complete
SpecLive ==
    Init /\ [][NextLive]_vars
         /\ \A p \in SeqProcs : WF_vars(PipelineStep(p, LiveInputs))

\* long runs of two users, one request at a time
NextStore ==
    NextOver([procs |-> SeqProcs, users |-> Users, texts |-> {FALSE},
              queries |-> {"news about Japan"},
              kinds |-> {"ok"},
              conversation_kinds |-> {"ok"},
              plan_replies |-> {ReplyOf("ok")}, plans |-> StorePlans,
              replies |-> {[response |-> "Tokyo has great ramen.",
                            confidence |-> 9]},
              evaluations |-> {[learning_progress |-> "object",
                                confidence |-> 9]},
              max |-> MaxStoreRequests])

SpecStore == Init /\ [][NextStore]_vars

\* one request at a time, plans that differ in their subject or ask the
\* user to clarify
NextSubject ==
    NextOver([procs |-> SeqProcs, users |-> Users, texts |-> {FALSE},
              queries |-> {"news about Japan"},
              kinds |-> {"ok", "transport"},
              conversation_kinds |-> {"ok", "transport"},
              plan_replies |-> {ReplyOf("ok"), ReplyOf("transport")},
              plans |-> SubjectPlans \cup ClarifyingPlans,
              replies |-> {[response |-> "Tokyo has great ramen.",
                            confidence |-> 9]},
              evaluations |-> {[learning_progress |-> "object",
                                confidence |-> 9]},
              max |-> MaxRequests])

SpecSubject == Init /\ [][NextSubject]_vars

\* one request at a time, every reply the classifier can be given
NextClassifier ==
    NextOver([procs |-> SeqProcs, users |-> {"u1"}, texts |-> {FALSE},
              queries |-> {"news about Japan"},
              kinds |-> {"ok"},
              conversation_kinds |-> {"ok"},
              plan_replies |-> AllReplies, plans |-> StorePlans,
              replies |-> {[response |-> "Tokyo has great ramen.",
                            confidence |-> 9]},
              evaluations |-> {[learning_progress |-> "object",
                                confidence |-> 9]},
              max |-> MaxRequests])

SpecClassifier == Init /\ [][NextClassifier]_vars

\* the capability a query asks for: None when it names a subject only
\* (the prompt's "tell me about Japan"), the matching source when it names
\* an aspect too ("places to eat in Japan" -> restaurants)
Queries == {"tell me about Japan", "restaurants in Japan"}

Aspect(query) ==
    IF query = "restaurants in Japan" THEN "restaurants" ELSE NoneVal

\* the plan a reasoning service that follows the prompt writes for a query
PromptedPlan(query) ==
    IF Aspect(query) = NoneVal
    THEN Plan("Japan", <<>>, <<"conversation">>,
              [needs_clarification |-> TRUE,
               clarifying_question |-> "Which aspect of Japan?"])
    ELSE Plan("Japan", <<Aspect(query)>>,
              <<"data_retrieval", "conversation">>,
              [needs_clarification |-> FALSE])

\* whenever the reasoning service answers with a plan, it is the plan the
\* prompt asks for
ServiceFollowsPrompt ==
    \A p \in AllProcs :
        req[p].plan_reply.status = 200
            /\ "orchestrator" \notin req[p].malformed
            /\ req[p].orchestrator_response # NoResult
        => req[p].execution_plan = PromptedPlan(req[p].query)

\* one request at a time, a vague or a specific query, a reasoning service
\* that follows the prompt whenever it answers
NextAmbiguity ==
    /\ NextOver([procs |-> SeqProcs, users |-> {"u1"}, texts |-> {FALSE},
                 queries |-> Queries,
                 kinds |-> CallKinds,
                 conversation_kinds |-> CallKinds,
                 plan_replies |-> {ReplyOf(k) : k \in CallKinds},
                 plans |-> {PromptedPlan(q) : q \in Queries},
                 replies |-> ConversationReplies,
                 evaluations |-> EvaluationReplies,
                 max |-> MaxRequests])
    /\ ServiceFollowsPrompt'

SpecAmbiguity == Init /\ [][NextAmbiguity]_vars

\* the stores after n requests of user u1 about Japan ended with success,
\* one after the other
RECURSIVE Settled(_)
Settled(n) ==
    IF n = 0
    THEN [conversation_context |-> EmptyDict, user_profiles |-> EmptyDict,
          appended |-> <<>>]
    ELSE LET s == Settled(n - 1)
             plan == Plan("Japan", <<>>, <<"conversation">>, EmptyDict)
             interaction ==
                 [country |-> "Japan", language |-> "en", timestamp |-> "now"]
         IN  [conversation_context |->
                  update_user_context(s.conversation_context, "u1", plan,
                                      n - 1),
              user_profiles |->
                  Put(s.user_profiles, "u1",
                      update_profile(s.user_profiles, "u1", interaction)),
              appended |-> Append(s.appended, history_entry(plan, n - 1))]

\* a server that has just started, or one whose user u1 has a history one
\* entry short of the bound
InitConcurrent ==
    \E n \in {0, HistoryCap - 1} :
        /\ conversation_context = Settled(n).conversation_context
        /\ user_profiles = Settled(n).user_profiles
        /\ appended = [u \in Users |->
                          IF u = "u1" THEN Settled(n).appended ELSE <<>>]
        /\ clock = n
        /\ nreq = 0
        /\ req = [p \in AllProcs |-> IdleReq]

\* two tasks at once, of the same user or of two users, interleaved at the
\* awaits
NextConcurrent ==
    NextOver([procs |-> AllProcs, users |-> Users, texts |-> {FALSE},
              queries |-> {"news about Japan"},
              kinds |-> {"ok"},
              conversation_kinds |-> {"ok"},
              plan_replies |-> {ReplyOf("ok")}, plans |-> ConcurrentPlans,
              replies |-> {[response |-> "Tokyo has great ramen.",
                            confidence |-> 9]},
              evaluations |-> {[learning_progress |-> "object",
                                confidence |-> 9]},
              max |-> MaxRequests])

SpecConcurrent == InitConcurrent /\ [][NextConcurrent]_vars

\* plans with and without retrieved data for the synthesis
SynthesisPlans ==
    {Plan("Japan", <<>>, <<"conversation">>, EmptyDict),
     Plan("Japan", <<"news">>, <<"data_retrieval", "conversation">>,
          EmptyDict)}

\* one request at a time; the conversation agent answers, falls back, or
\* fails in process itself
NextSynthesis ==
    NextOver([procs |-> SeqProcs, users |-> {"u1"}, texts |-> {FALSE},
              queries |-> {"news about Japan"},
              kinds |-> {"ok", "transport"},
              conversation_kinds |-> {"ok", "transport", "internal"},
              plan_replies |-> {ReplyOf("ok")}, plans |-> SynthesisPlans,
              replies |-> ConversationReplies,
              evaluations |-> EvaluationReplies,
              max |-> MaxRequests])

SpecSynthesis == Init /\ [][NextSynthesis]_vars

\* the turns of one user's conversation, one request at a time
NextTurns ==
    NextOver([procs |-> SeqProcs, users |-> {"u1"}, texts |-> {FALSE},
              queries |-> {"news about Japan"},
              kinds |-> {"ok"},
              conversation_kinds |-> {"ok"},
              plan_replies |-> {ReplyOf("ok")}, plans |-> TurnPlans,
              replies |-> {[response |-> "Tokyo has great ramen.",
                            confidence |-> 9]},
              evaluations |-> {[learning_progress |-> "object",
                                confidence |-> 9]},
              max |-> MaxTurns])

SpecTurns == Init /\ [][NextTurns]_vars

----------------------------------------------------------------------------
(* Properties *)

Range(l) == {l[i] : i \in 1..Len(l)}

IsPrefix(s, t) == Len(s) <= Len(t) /\ SubSeq(t, 1, Len(s)) = s

\* the agent names a plan lists, in whatever order
Names(execution_plan) ==
    Range(Get(execution_plan, "agents_to_activate", <<>>))

OptionalAgents == {"language_correction", "data_retrieval", "translation"}

Finished(r) == r.pc = "done"

\* C1: a plan that asks for clarification ends the request at once: the
\* result is clarification_needed with the plan's question, and none of the
\* six dispatched agents is invoked
C1_PlanClarificationShortCircuits ==
    \A p \in AllProcs :
        LET r == req[p]
        IN  Get(r.execution_plan, "needs_clarification", FALSE) =>
               /\ Finished(r)
               /\ r.result.status = "clarification_needed"
               /\ "clarifying_question" \in DOMAIN r.execution_plan =>
                      r.result.response = r.execution_plan["clarifying_question"]
               /\ r.invoked = <<>>

C1_Witness ==
    \E p \in AllProcs :
        /\ Finished(req[p])
        /\ Get(req[p].execution_plan, "needs_clarification", FALSE)
        /\ "clarifying_question" \in DOMAIN req[p].execution_plan

\* C2: an exception that escapes one agent's process call is caught for that
\* agent alone: a fallback outcome is recorded for it, the request is not
\* aborted and response synthesis still runs
C2_FaultIsolated ==
    \A p \in AllProcs :
        LET r == req[p]
        IN  \A a \in r.raised :
               /\ a \in DOMAIN r.agent_responses
               /\ r.result.status # "error"
               /\ Finished(r) => "conversation" \in Range(r.invoked)

\* C3: with exactly one transport failure in a request the result is
\* success, or clarification_needed for a reason other than the failure;
\* it is never error
C3_TransportFailureKeepsStatus ==
    \A p \in AllProcs :
        LET r == req[p]
        IN  Finished(r) /\ Cardinality(r.transport) = 1 =>
               /\ r.result.status \in {"success", "clarification_needed"}
               /\ r.result.status = "clarification_needed" =>
                      "data_retrieval" \notin r.transport

\* C4 as claimed: in a successful request with one transport failure the
\* outcome recorded for the failed agent has status "error"
C4_FailedAgentRecordedAsError ==
    \A p \in AllProcs :
        LET r == req[p]
        IN  /\ Finished(r)
            /\ r.result.status = "success"
            /\ Cardinality(r.transport) = 1
            => \A a \in r.transport :
                  /\ a \in DOMAIN r.result.metadata.agent_responses
                  /\ r.result.metadata.agent_responses[a].status = "error"

\* C4 as amended: in a successful request with one transport failure, the
\* outcome recorded for a failed dispatched agent is its fallback, with
\* status "success" and confidence 0.3; a failed classifier is not recorded
\* as an outcome, and the plan is its fallback plan
C4_FailedAgentRecordedAsFallback ==
    \A p \in AllProcs :
        LET r == req[p]
        IN  /\ Finished(r)
            /\ r.result.status = "success"
            /\ Cardinality(r.transport) = 1
            => /\ \A a \in r.transport \ {"orchestrator"} :
                     /\ a \in DOMAIN r.result.metadata.agent_responses
                     /\ r.result.metadata.agent_responses[a].status = "success"
                     /\ r.result.metadata.agent_responses[a].confidence = 3
               /\ "orchestrator" \in r.transport =>
                     /\ "orchestrator" \notin
                            DOMAIN r.result.metadata.agent_responses
                     /\ r.result.metadata.execution_plan.confidence = 3
                     /\ r.result.metadata.execution_plan.reasoning =
                            "Fallback plan due to error"

C4_Witness ==
    \E p \in AllProcs :
        /\ Finished(req[p])
        /\ req[p].result.status = "success"
        /\ req[p].transport = {"conversation"}

\* C5: a clarification_needed outcome of data retrieval is returned at once:
\* same question, same options, and no later agent is invoked
C5_DataClarificationShortCircuits ==
    \A p \in AllProcs :
        LET r == req[p]
        IN  r.data_response.status = "clarification_needed" =>
               /\ Finished(r)
               /\ r.result.status = "clarification_needed"
               /\ r.result.response =
                      r.data_response.data["clarification_question"]
               /\ r.result.metadata.suggested_options =
                      r.data_response.data["suggested_options"]
               /\ r.invoked[Len(r.invoked)] = "data_retrieval"
               /\ Range(r.invoked) \cap
                      {"translation", "conversation", "evaluation",
                       "personalization"} = {}

C5_Witness ==
    \E p \in AllProcs :
        /\ Finished(req[p])
        /\ req[p].data_response.status = "clarification_needed"
        /\ req[p].data_response.data["suggested_options"] # <<>>
        /\ req[p].invoked = <<"language_correction", "data_retrieval">>

\* the fixed order of the agent catalog, as the specification states it
FixedOrder ==
    <<"language_correction", "data_retrieval", "translation",
      "conversation", "evaluation", "personalization">>

\* whether a request reaches an agent, by the set of names of its plan only
Reaches(r, agent) ==
    CASE agent = "language_correction" ->
             agent \in Names(r.execution_plan) /\ r.has_text
      [] agent = "data_retrieval" ->
             agent \in Names(r.execution_plan)
                 /\ wants_data_retrieval(r.execution_plan)
      [] agent = "translation" -> agent \in Names(r.execution_plan)
      [] OTHER -> TRUE

\* the agents a request reaches, in the fixed order
Route(r) ==
    LET Test(agent) == Reaches(r, agent)
    IN  SelectSeq(FixedOrder, Test)

\* s without its first element when that is the classifier's name
Dispatched(s) ==
    IF s # <<>> /\ s[1] = "orchestrator" THEN Tail(s) ELSE s

\* s is a subsequence of t, a list without repetition
IsSubsequence(s, t) ==
    /\ Range(s) \subseteq Range(t)
    /\ \A i, j \in 1..Len(s) :
           i < j =>
              (CHOOSE k \in 1..Len(t) : t[k] = s[i])
                  < (CHOOSE k \in 1..Len(t) : t[k] = s[j])

C7_OnlyNamedAgentsRun ==
    \A p \in AllProcs :
        LET r == req[p]
        IN  /\ Range(r.invoked) \subseteq Names(r.execution_plan)
            /\ /\ Finished(r)
               /\ r.result.status = "success"
               /\ Names(r.execution_plan) = {"conversation"}
               /\ Get(r.execution_plan, "data_sources", <<>>) = <<>>
               => r.invoked = <<"conversation">>

\* C7 as amended: language correction, data retrieval and translation are
\* invoked only if the plan names them; conversation, evaluation and
\* personalization run whether named or not, so a plan with no data sources
\* that names only conversation invokes exactly these three
C7_PlanControlsOptionalAgents ==
    \A p \in AllProcs :
        LET r == req[p]
        IN  /\ Range(r.invoked) \cap OptionalAgents
                   \subseteq Names(r.execution_plan)
            /\ /\ Finished(r)
               /\ r.result.status = "success"
               /\ Names(r.execution_plan) = {"conversation"}
               /\ Get(r.execution_plan, "data_sources", <<>>) = <<>>
               => r.invoked = <<"conversation", "evaluation",
                                "personalization">>

C7_Witness ==
    \E p \in AllProcs :
        LET r == req[p]
        IN  /\ Finished(r)
            /\ r.result.status = "success"
            /\ r.has_text
            /\ Names(r.execution_plan) = {"conversation"}
            /\ Get(r.execution_plan, "data_sources", <<>>) = <<>>

\* the number of times an agent was invoked
Count(l, x) == Cardinality({i \in 1..Len(l) : l[i] = x})

\* the places of an agent in a list
Places(l, x) == {i \in 1..Len(l) : l[i] = x}

\* C8: every result that is not a clarification holds a conversation outcome,
\* and conversation was invoked exactly once, after language correction, data
\* retrieval and translation and before evaluation and personalization
C8_SynthesisAlwaysPresent ==
    \A p \in AllProcs :
        LET r == req[p]
        IN  Finished(r) /\ r.result.status # "clarification_needed" =>
               /\ "agent_responses" \in DOMAIN r.result.metadata
               /\ "conversation" \in DOMAIN r.result.metadata.agent_responses
               /\ Count(r.invoked, "conversation") = 1
               /\ \A i \in Places(r.invoked, "conversation") :
                      /\ \A j \in 1..Len(r.invoked) :
                             r.invoked[j] \in OptionalAgents => j < i
                      /\ \A j \in 1..Len(r.invoked) :
                             r.invoked[j] \in {"evaluation", "personalization"}
                                 => i < j

\* C9: once conversation has run, evaluation and then personalization run,
\* and whatever they return the result is success with the text of the
\* conversation outcome; their outcomes are entries of agent_responses only
C9_SinkNeverAltersResponse ==
    \A p \in AllProcs :
        LET r == req[p]
            conversation == r.agent_responses["conversation"]
        IN  "conversation" \in Range(r.invoked) =>
               /\ r.pc \in {"evaluation", "personalization", "done"}
               /\ Finished(r) =>
                     /\ SubSeq(r.invoked, Len(r.invoked) - 2, Len(r.invoked))
                            = <<"conversation", "evaluation", "personalization">>
                     /\ r.result.status = "success"
                     /\ "response" \in DOMAIN conversation.data =>
                            r.result.response = conversation.data["response"]
                     /\ r.result.metadata.confidence = conversation.confidence
                     /\ {"evaluation", "personalization"} \subseteq
                            DOMAIN r.result.metadata.agent_responses
                     /\ r.result.metadata.agent_responses["conversation"]
                            = conversation

\* the evaluation failed and the request still succeeded
C9_Witness ==
    \E p \in AllProcs :
        LET r == req[p]
        IN  /\ Finished(r)
            /\ r.result.status = "success"
            /\ r.agent_responses["evaluation"].status = "error"
            /\ r.result.response = "Tokyo has great ramen."

\* C10: no user's conversation history is ever longer than 10
C10_HistoryBounded ==
    \A u \in DOMAIN conversation_context :
        Len(conversation_context[u].conversation_history) <= 10

\* a user whose eleventh request has been recorded
C10_Witness ==
    \E u \in DOMAIN conversation_context :
        /\ Len(conversation_context[u].conversation_history) = 10
        /\ user_profiles[u].interaction_count = 11

\* the history a user's context holds (none before the first update)
History(u) ==
    IF u \in DOMAIN conversation_context
    THEN conversation_context[u].conversation_history ELSE <<>>

Min(a, b) == IF a <= b THEN a ELSE b

\* C11: after n updates for a user the history is the last min(n, 10)
\* appended entries in the order of appending: the oldest entry is evicted
\* first and the entry appended last is the last element
C11_HistoryIsLastAppended ==
    \A u \in Users :
        LET n == Len(appended[u])
        IN  /\ Len(History(u)) = Min(n, 10)
            /\ History(u) = SubSeq(appended[u], n - Min(n, 10) + 1, n)
            /\ n > 0 => History(u)[Len(History(u))] = appended[u][n]

\* a user whose eleventh entry evicted the first
C11_Witness ==
    \E u \in Users :
        /\ Len(appended[u]) = 11
        /\ History(u)[1] = appended[u][2]
        /\ History(u)[1] # appended[u][1]
        /\ History(u)[10] = appended[u][11]

\* the subjects that do not overwrite: missing, empty, "unknown", "none"
Unspecific == {NoneVal, "", "unknown", "none"}

\* the subject of the latest entry that names a specific one, None if none
LastSpecific(entries) ==
    LET specific == {i \in 1..Len(entries) :
                        entries[i].country \notin Unspecific}
    IN  IF specific = {} THEN NoneVal
        ELSE entries[CHOOSE i \in specific :
                         \A j \in specific : j <= i].country

\* C12: an update overwrites last_country with the plan's target_country
\* exactly when that is non-empty and neither "unknown" nor "none", and
\* keeps the old value otherwise, so last_country is always the latest
\* specific subject among the updates; the entry is appended in every case
C12_LastSubjectRule ==
    \A u \in Users :
        LET n == Len(appended[u])
        IN  n > 0 =>
               /\ u \in DOMAIN conversation_context
               /\ conversation_context[u].last_country
                      = LastSpecific(appended[u])
               /\ Len(History(u)) = Min(n, 10)
               /\ History(u)[Len(History(u))].country
                      = appended[u][n].country

\* an update with the subject "unknown" after one with "France"
C12_Witness ==
    \E u \in Users :
        /\ Len(appended[u]) = 2
        /\ appended[u][1].country = "France"
        /\ appended[u][2].country = "unknown"
        /\ conversation_context[u].last_country = "France"
        /\ Len(History(u)) = 2

\* the request of task p gets its result in this step, with this status
Completes(p, status) ==
    /\ req[p].result.status = "none"
    /\ req'[p].result.status = status

\* the context of a user as the store holds it, an empty one if it has none
Stored(store, u) == Get(store, u, EmptyContext)

\* C13: the store is written only when a request completes with success:
\* a step that ends a request with clarification_needed or error, and every
\* step that ends no request, leaves the whole store unchanged; the step
\* that ends a request with success, compiling its result, appends exactly
\* one entry to the history of that request's user and touches no other user
C13_Step ==
    /\ \A p \in AllProcs :
           Completes(p, "clarification_needed") \/ Completes(p, "error")
               => conversation_context' = conversation_context
    /\ conversation_context' # conversation_context
           => \E p \in AllProcs : Completes(p, "success")
    /\ \A p \in AllProcs :
           Completes(p, "success") =>
              LET u == req[p].user_id
                  before == Stored(conversation_context, u).conversation_history
                  after == Stored(conversation_context', u).conversation_history
              IN  /\ u \in DOMAIN conversation_context'
                  /\ Len(before) < 10 =>
                         /\ Len(after) = Len(before) + 1
                         /\ SubSeq(after, 1, Len(before)) = before
                  /\ after[Len(after)].timestamp = clock
                  /\ \A v \in Users \ {u} :
                         /\ v \in DOMAIN conversation_context'
                                <=> v \in DOMAIN conversation_context
                         /\ Stored(conversation_context', v)
                                = Stored(conversation_context, v)
                  /\ "agent_responses" \in DOMAIN req'[p].result.metadata

C13_StoreWrittenOnSuccessOnly == [][C13_Step]_vars

\* a request of u2 that ended with a clarification after one of u1 succeeded
C13_Witness ==
    \E p \in AllProcs :
        /\ Finished(req[p])
        /\ req[p].user_id = "u2"
        /\ req[p].result.status = "clarification_needed"
        /\ DOMAIN conversation_context = {"u1"}
        /\ Len(conversation_context["u1"].conversation_history) = 1

\* C14: the first get for a user creates that user's context in the store:
\* once a request has read the context, the store holds an entry for its user
C14_GetCreatesContext ==
    \A p \in AllProcs :
        req[p].pc # "idle" => req[p].user_id \in DOMAIN conversation_context

\* the text between the first '{' and the last '}' of a reply, both included
Enclosed(text) ==
    LET opens == {i \in 1..Len(text) : text[i] = "{"}
        closes == {i \in 1..Len(text) : text[i] = "}"}
    IN  IF opens = {} \/ closes = {} THEN <<>>
        ELSE SubSeq(text, CHOOSE i \in opens : \A j \in opens : i <= j,
                          CHOOSE i \in closes : \A j \in closes : j <= i)

\* the reply arrived with status 200 and its enclosed text is an object
Parseable(reply) ==
    /\ reply.status = 200
    /\ "text" \in DOMAIN reply
    /\ Enclosed(reply.text) \in {<<"{", "}">>, <<"{", "m", "}">>}

\* C15: the classifier never raises: whatever the reasoning service does
\* (no reply, a status other than 200, a text without '{' or '}', a text
\* whose enclosed part does not parse) it returns a success outcome holding
\* the one fallback plan, which asks for no clarification and has confidence
\* 0.3; a plan other than the fallback is returned only when the enclosed
\* text parses
C15_ClassifierNeverRaises ==
    \A p \in AllProcs :
        LET r == req[p]
        IN  r.pc \notin {"idle", "orchestrator"} =>
               /\ "orchestrator" \notin r.raised
               /\ r.orchestrator_response.status = "success"
               /\ r.orchestrator_response.data = r.execution_plan
               /\ IF Parseable(r.plan_reply)
                  THEN r.execution_plan # FallbackPlan
                  ELSE /\ r.execution_plan = FallbackPlan
                       /\ ~Get(r.execution_plan, "needs_clarification", FALSE)
                       /\ r.execution_plan.confidence = 3
                       /\ r.orchestrator_response.confidence = 3

\* a reply whose enclosed text does not parse
C15_Witness ==
    \E p \in AllProcs :
        /\ req[p].pc = "language_correction"
        /\ req[p].plan_reply = [status |-> 200, text |-> <<"x", "{", "x", "}">>]
        /\ req[p].execution_plan = FallbackPlan

\* C16: no request ends with status "error"
C16_ErrorUnreachable ==
    \A p \in AllProcs : req[p].result.status # "error"

\* C17: process_input never raises to its caller: a finished request has a
\* result whose status is success, clarification_needed or error, and an
\* exception raised by an awaited agent ends the request at once with the
\* result of the process-level catch, status "error" and the apology
C17_NeverRaisesToCaller ==
    \A p \in AllProcs :
        LET r == req[p]
        IN  /\ Finished(r) =>
                  /\ r.result.status \in
                         {"success", "clarification_needed", "error"}
                  /\ "response" \in DOMAIN r.result
            /\ r.raised # {} =>
                  /\ Finished(r)
                  /\ r.raised = {r.invoked[Len(r.invoked)]}
                  /\ r.result.status = "error"
                  /\ r.result.response =
                         "I apologize, but I encountered an error. Please try again."
            /\ r.result.status = "error" => r.raised # {}

\* the exception of the translation agent, converted
C17_Witness ==
    \E p \in AllProcs :
        /\ Finished(req[p])
        /\ req[p].raised = {"translation"}
        /\ req[p].result.status = "error"
        /\ req[p].result.metadata.error = "Agents must implement process method"

\* C18: every result, whatever its status, has a response and a metadata
\* record with agents_activated, execution_plan, agent_responses, confidence
C18_ResultWellFormed ==
    \A p \in AllProcs :
        LET r == req[p]
        IN  Finished(r) =>
               /\ {"status", "response", "metadata"} \subseteq DOMAIN r.result
               /\ {"agents_activated", "execution_plan", "agent_responses",
                   "confidence"} \subseteq DOMAIN r.result.metadata

\* the agents of a request whose call of the reasoning service failed in
\* transport or gave no parseable reply
Failed(r) == r.transport \cup r.malformed

\* C19: the outcome an agent produces after a transport failure or a
\* malformed reply has confidence at most 0.3, and so has every outcome
\* with status "error"; confidences are tenths
C19_FailureOutcomesLowConfidence ==
    \A p \in AllProcs :
        LET r == req[p]
        IN  /\ \A a \in Failed(r) \cap DOMAIN r.agent_responses :
                   r.agent_responses[a].confidence <= 3
            /\ "orchestrator" \in Failed(r) /\ r.pc # "orchestrator" =>
                   r.orchestrator_response.confidence <= 3
            /\ "data_retrieval" \in Failed(r)
                   /\ r.data_response.status # "none" =>
                   r.data_response.confidence <= 3
            /\ \A a \in DOMAIN r.agent_responses :
                   r.agent_responses[a].status = "error" =>
                       r.agent_responses[a].confidence <= 3

\* C20: the mapping data retrieval returns has an entry for every capability
\* it was asked to fetch, and each entry is a payload for the subject: the
\* provider's records, or the placeholder payload when the provider failed
\* or is not reachable, never an error in its place
C20_EveryCapabilityHasPayload ==
    \A p \in AllProcs :
        LET r == req[p]
            data == r.data_response.data
        IN  r.data_response.status = "success" =>
               \A c \in Range(r.asked) :
                  /\ c \in DOMAIN data
                  /\ "error" \notin DOMAIN data[c]
                  /\ data[c].country = data_country(r.execution_plan)

\* C21: the capabilities data retrieval fetches are exactly the ones the
\* plan names: the keys of the returned mapping are the plan's data_sources
C21_FetchedEqualsPlanned ==
    \A p \in AllProcs :
        LET r == req[p]
        IN  r.data_response.status = "success" =>
               DOMAIN r.data_response.data
                   = Range(Get(r.execution_plan, "data_sources", <<>>))

\* C22: the result of a data-retrieval clarification lists in
\* agents_activated exactly the agents invoked so far, in order (the
\* classifier's name may come first)
C22_ClarificationListsInvoked ==
    \A p \in AllProcs :
        LET r == req[p]
        IN  r.data_response.status = "clarification_needed" =>
               Dispatched(r.result.metadata.agents_activated) = r.invoked

\* C24: the context store is the only state a request leaves to the later
\* requests of its user: the profile a request reads for the evaluation is
\* the one of a user never seen before
C24_OnlyContextShared ==
    \A p \in AllProcs : req[p].user_profile = EmptyDict

\* C28: a plan that names data retrieval: with a specific target country
\* the agent is invoked with that country; without one (missing, None,
\* empty, "none", "unknown") it is invoked only if "news" is among the data
\* sources, and then with the country "global"
C28_DataRetrievalGating ==
    \A p \in AllProcs :
        LET r == req[p]
            plan == r.execution_plan
            target_country == Get(plan, "target_country", NoneVal)
            called == "data_retrieval" \in Range(r.invoked)
        IN  /\ r.pc \in {"translation", "conversation", "evaluation",
                          "personalization", "done"}
            /\ ~Get(plan, "needs_clarification", FALSE)
            /\ "data_retrieval" \in Names(plan)
            => IF target_country \notin Unspecific
               THEN called /\ r.data_input.country = target_country
               ELSE called =>
                       /\ "news" \in Range(Get(plan, "data_sources", <<>>))
                       /\ r.data_input.country = "global"

\* the subject a request's plan names, None when it names none
Subject(r) == Get(r.execution_plan, "target_country", NoneVal)

\* C23 as claimed: once a request whose plan names a specific subject S has
\* ended, the store holds last_country = S for that user's next request
C23_CarryOverAfterAnyRequest ==
    \A p \in AllProcs :
        LET r == req[p]
        IN  Finished(r) /\ Subject(r) \notin Unspecific =>
               Stored(conversation_context, r.user_id).last_country
                   = Subject(r)

\* C23 as amended: a request is handed the last_country of its user's
\* stored context and the last 3 entries of its history; a request that
\* ends with success and names a specific subject S leaves last_country = S
\* for the next one, and a request that ends with clarification_needed or
\* error leaves what it was handed
C23_CarryOverAfterSuccess ==
    \A p \in AllProcs :
        LET r == req[p]
            stored == Stored(conversation_context, r.user_id)
        IN  /\ r.pc \notin {"idle", "done"} =>
                  /\ r.context.last_country = stored.last_country
                  /\ r.context.conversation_history
                         = LastN(stored.conversation_history, 3)
                  /\ Len(r.context.conversation_history) <= 3
            /\ Finished(r) /\ r.result.status = "success"
                  /\ Subject(r) \notin Unspecific =>
                  stored.last_country = Subject(r)
            /\ Finished(r) /\ r.result.status # "success" =>
                  stored.last_country = r.context.last_country

\* the fifth turn of a user: France is handed on across a turn that named
\* no subject, with the last three of four entries
C23_Witness ==
    \E p \in AllProcs :
        /\ req[p].pc = "orchestrator"
        /\ Len(appended[req[p].user_id]) = 4
        /\ appended[req[p].user_id][3].country = "France"
        /\ appended[req[p].user_id][4].country = "unknown"
        /\ req[p].context.last_country = "France"
        /\ Len(req[p].context.conversation_history) = 3

\* the states of a request: a result is there exactly in a terminal state,
\* success only after the synthesis (conversation) ran, clarification_needed
\* only after the plan or data retrieval asked for it
C25_States ==
    \A p \in AllProcs :
        LET r == req[p]
        IN  /\ r.pc \in {"idle", "orchestrator", "done"} \cup Range(AgentOrder)
            /\ Finished(r) <=>
                  r.result.status \in
                      {"success", "clarification_needed", "error"}
            /\ ~Finished(r) => r.result = NoResult
            /\ r.result.status = "success" =>
                  "conversation" \in Range(r.invoked)
            /\ r.result.status = "clarification_needed" =>
                  \/ /\ Get(r.execution_plan, "needs_clarification", FALSE)
                     /\ r.invoked = <<>>
                  \/ /\ r.data_response.status = "clarification_needed"
                     /\ r.invoked[Len(r.invoked)] = "data_retrieval"

\* nothing is invoked and no result is changed after a terminal state
C25_Terminal ==
    \A p \in AllProcs :
        Finished(req[p]) => req'[p] = req[p] \/ req'[p] = IdleReq

\* C25: a request goes from planning to a clarification, or through the
\* dispatch to the synthesis and the end; if every external call returns or
\* fails, every request reaches a terminal state, exactly one; success is
\* returned only after the synthesis ran, clarification_needed only from a
\* clarification branch, and no agent is invoked after a terminal state
C25_StateMachineTerminates ==
    /\ []C25_States
    /\ [][C25_Terminal]_vars
    /\ \A p \in AllProcs : (req[p].pc # "idle") ~> Finished(req[p])

\* a request that went through every stage it could
C25_Witness ==
    \E p \in AllProcs :
        /\ Finished(req[p])
        /\ req[p].result.status = "success"
        /\ req[p].invoked = <<"language_correction", "data_retrieval",
                              "conversation", "evaluation", "personalization">>

\* C26: once the classifier has produced the plan, a query that names a
\* subject with no aspect has clarification set and no data source in its
\* plan, and a query that names a subject and an aspect has clarification
\* unset and the matching source in its plan
C26_AmbiguityRule ==
    \A p \in AllProcs :
        LET r == req[p]
            plan == r.execution_plan
            sources == Get(plan, "data_sources", <<>>)
        IN  r.orchestrator_response # NoResult =>
               IF Aspect(r.query) = NoneVal
               THEN /\ Get(plan, "needs_clarification", FALSE) = TRUE
                    /\ sources = <<>>
               ELSE /\ Get(plan, "needs_clarification", FALSE) = FALSE
                    /\ Aspect(r.query) \in Range(sources)

\* two tasks that both hold the result of a request of user u
Together(p, q, u) ==
    /\ p # q
    /\ Finished(req[p]) /\ req[p].result.status = "success"
    /\ Finished(req[q]) /\ req[q].result.status = "success"
    /\ req[p].user_id = u /\ req[q].user_id = u

\* C27: the updates of two requests of one user that run at once are applied
\* one after the other: the history is the last min(n, 10) of the entries in
\* the order the updates ran, the last subject is the one of the latest
\* update that names one, and while both tasks hold the success result of
\* their request both entries are in the history, none lost, the newest
\* entry being the one of the two written last and naming the last subject
C27_ConcurrentUpdatesSerialize ==
    \A u \in Users :
        LET log == appended[u]
            h == History(u)
        IN  /\ h = LastN(log, Min(Len(log), HistoryCap))
            /\ Len(h) <= HistoryCap
            /\ Stored(conversation_context, u).last_country
                   = LastSpecific(log)
            /\ \A p, q \in AllProcs :
                   Together(p, q, u) =>
                      /\ \E i, j \in 1..Len(h) :
                             /\ i < j /\ j = Len(h)
                             /\ \/ /\ h[i].country = Subject(req[p])
                                   /\ h[j].country = Subject(req[q])
                                \/ /\ h[i].country = Subject(req[q])
                                   /\ h[j].country = Subject(req[p])
                      /\ Stored(conversation_context, u).last_country
                             = h[Len(h)].country

\* two requests of u1 about different subjects that both read the store
\* before either wrote it, one entry short of the bound, have both ended
C27_Witness ==
    \E p, q \in AllProcs :
        /\ Together(p, q, "u1")
        /\ Subject(req[p]) = "France" /\ Subject(req[q]) = "Japan"
        /\ req[p].context = req[q].context
        /\ Len(req[p].context.conversation_history) = ContextWindow
        /\ Len(appended["u1"]) = HistoryCap + 1
        /\ Len(History("u1")) = HistoryCap
        /\ History("u1")[HistoryCap].country = "France"

\* the step of task p hands a new request its context
Begins(p) == req[p].pc = "idle" /\ req'[p].pc = "orchestrator"

\* C30: the entry of a user in the store is created or changed only by a
\* step of a request of that user, no entry is ever deleted, and the context
\* a new request hands to the classifier is built from the entry of its own
\* user, whatever other requests are under way
C30_Isolated ==
    /\ \A u \in Users :
           \/ /\ (u \in DOMAIN conversation_context')
                    = (u \in DOMAIN conversation_context)
              /\ Stored(conversation_context', u)
                    = Stored(conversation_context, u)
           \/ /\ u \in DOMAIN conversation_context'
              /\ \E p \in AllProcs :
                     req[p].user_id = u /\ Completes(p, "success")
    /\ \A p \in AllProcs :
           Begins(p) =>
              req'[p].context =
                  enhanced_context(
                      Stored(conversation_context, req'[p].user_id))

C30_UsersIsolated == [][C30_Isolated]_vars

\* a request of u2 is handed an empty context and ends while a request of
\* u1, whose entry is full of history, is under way
C30_Witness ==
    \E p, q \in AllProcs :
        /\ req[p].user_id = "u1" /\ req[p].pc = "conversation"
        /\ req[q].user_id = "u2" /\ Finished(req[q])
        /\ req[q].result.status = "success"
        /\ req[q].context = enhanced_context(EmptyContext)
        /\ Len(History("u1")) = HistoryCap - 1
        /\ Len(History("u2")) = 1

\* the conversation outcome of a request has status "error"
ConversationFailed(r) ==
    /\ "conversation" \in DOMAIN r.agent_responses
    /\ r.agent_responses["conversation"].status = "error"

\* C29: a conversation outcome with status "error" does not abort the
\* request: evaluation and personalization are invoked after it, and the
\* result is a success with the default text "I'm here to help!" and the
\* outcome's confidence 0.0
C29_FailedConversationStillSucceeds ==
    \A p \in AllProcs :
        LET r == req[p]
        IN  ConversationFailed(r) =>
               /\ r.pc \in {"evaluation", "personalization", "done"}
               /\ r.agent_responses["conversation"].confidence = 0
               /\ "response" \notin DOMAIN r.agent_responses["conversation"].data
               /\ Finished(r) =>
                     /\ r.result.status = "success"
                     /\ r.result.response = "I'm here to help!"
                     /\ r.result.metadata.confidence = 0
                     /\ LastN(r.invoked, 3) =
                            <<"conversation", "evaluation", "personalization">>
                     /\ LastN(r.result.metadata.agents_activated, 3) =
                            <<"conversation", "evaluation", "personalization">>

\* a request whose data was retrieved and whose conversation outcome is an
\* error has ended
C29_Witness ==
    \E p \in AllProcs :
        /\ Finished(req[p])
        /\ ConversationFailed(req[p])
        /\ "data_retrieval" \in DOMAIN req[p].agent_responses
        /\ req[p].result.status = "success"

====
